---- MODULE Spec2Model ----
(***************************************************************************)
(* Student record manager (src/app.py): a Flask application with the       *)
(* routes /, /update/<id>, /delete/<id> and /search over one table,        *)
(* student(id, fname, lname, email), with WTForms validation and           *)
(* Flask-WTF CSRF protection.                                              *)
(*                                                                         *)
(* A string is a sequence of one-character strings.  One action is one     *)
(* HTTP request, handled from routing to the response.                     *)
(***************************************************************************)
EXTENDS Integers, Sequences, FiniteSets

VARIABLES store, session, last

vars == <<store, session, last>>

-----------------------------------------------------------------------------
(* Bounds of the model and constants of the program.                       *)

\* Ids the table may hand out: a create that would be given a larger id is
\* not taken.
MaxId == 2

\* Length(min=2, max=50) of the name fields.
MinLen == 2
MaxLen == 50

-----------------------------------------------------------------------------
(* Characters.                                                             *)

Upper == {"A","B","C","D","E","F","G","H","I","J","K","L","M",
          "N","O","P","Q","R","S","T","U","V","W","X","Y","Z"}
Lower == {"a","b","c","d","e","f","g","h","i","j","k","l","m",
          "n","o","p","q","r","s","t","u","v","w","x","y","z"}
Letter == Upper \cup Lower
Digit == {"0","1","2","3","4","5","6","7","8","9"}

\* What str.strip() removes at either end.
Whitespace == {" ", "\t", "\n", "\r"}

\* Characters of an unquoted local part, and of a host name.
AText == Letter \cup Digit \cup
         {"!","#","$","%","&","'","*","+","-","/","=","?","^","_","{","|","}","~"}
HostText == Letter \cup Digit \cup {"-"}
ATextDot == AText \cup {"."}
HostTextDot == HostText \cup {"."}

-----------------------------------------------------------------------------
(* String functions.                                                       *)

RECURSIVE lstrip(_)
lstrip(s) ==
    IF s # <<>> /\ Head(s) \in Whitespace THEN lstrip(Tail(s)) ELSE s

RECURSIVE rstrip(_)
rstrip(s) ==
    IF s # <<>> /\ s[Len(s)] \in Whitespace
    THEN rstrip(SubSeq(s, 1, Len(s) - 1))
    ELSE s

\* No trimming at all.
strip_none(s) == s

\* str.strip(): leading and trailing whitespace removed.
strip(s) == rstrip(lstrip(s))

AllIn(s, chars) == \A i \in 1..Len(s) : s[i] \in chars

\* The class [A-Za-z ] of the name pattern.
NameChars == Letter \cup {" "}

-----------------------------------------------------------------------------
(* The validators of StudentForm, each on the raw field data.              *)

\* DataRequired(): the data is non-empty and not whitespace only.
DataRequired(d) == d # <<>> /\ strip(d) # <<>>

\* Length(min=2, max=50): the length of the raw data.
Length(d) == Len(d) >= MinLen /\ Len(d) <= MaxLen

\* Regexp('^[A-Za-z ]*$') with re.match: '$' matches at the end of the
\* string and also just before a newline that ends the string.
Regexp(d) ==
    \/ AllIn(d, NameChars)
    \/ /\ d # <<>>
       /\ d[Len(d)] = "\n"
       /\ AllIn(SubSeq(d, 1, Len(d) - 1), NameChars)

\* A dot-atom: non-empty, characters of chars, dots only
\* between other characters.
DotAtom(t, chars) ==
    /\ t # <<>>
    /\ AllIn(t, chars)
    /\ t[1] # "."
    /\ t[Len(t)] # "."
    /\ \A i \in 1..(Len(t) - 1) : ~(t[i] = "." /\ t[i + 1] = ".")

\* Email(): local-part "@" domain, the domain with at least one dot.
Email(d) ==
    \E p \in 1..Len(d) :
        /\ d[p] = "@"
        /\ \A q \in 1..Len(d) : d[q] = "@" => q = p
        /\ DotAtom(SubSeq(d, 1, p - 1), ATextDot)
        /\ DotAtom(SubSeq(d, p + 1, Len(d)), HostTextDot)
        /\ \E q \in (p + 1)..Len(d) : d[q] = "."

\* The validators of a name field, in order; DataRequired stops the chain.
NameField(d) == DataRequired(d) /\ Length(d) /\ Regexp(d)

EmailField(d) == DataRequired(d) /\ Email(d)

\* form.errors after form.validate(): the fields with a failed validator.
\* csrf_token is the hidden field every FlaskForm carries.
StudentForm(form) ==
    {f \in {"fname"} : ~NameField(form.fname)}
        \cup {f \in {"lname"} : ~NameField(form.lname)}
        \cup {f \in {"email"} : ~EmailField(form.email)}
        \cup {f \in {"csrf_token"} : ~form.csrf_token}

-----------------------------------------------------------------------------
(* The table and the session.                                              *)

\* A row of the table student.
Student(id, fname, lname, email) ==
    [id |-> id, fname |-> fname, lname |-> lname, email |-> email]

\* The id an INSERT is given: an INTEGER PRIMARY KEY is one more than the
\* largest id in the table.
NextId(st) ==
    IF st = {} THEN 1
    ELSE (CHOOSE m \in {r.id : r \in st} : \A r \in st : r.id <= m) + 1

\* Student.query.get(id): the rows with that primary key.
get(st, id) == {r \in st : r.id = id}

\* get_or_404 goes on whether or not the row exists.
found_any(st, id) == TRUE

\* get_or_404 finds a row.
found(st, id) == get(st, id) # {}

INSERT(st, o) == st \cup {Student(NextId(st), o.fname, o.lname, o.email)}

\* UPDATE that leaves the email column as it was.
UPDATE_names(st, o) ==
    {IF r.id = o.id THEN Student(r.id, o.fname, o.lname, r.email) ELSE r : r \in st}

UPDATE(st, o) ==
    {IF r.id = o.id THEN Student(r.id, o.fname, o.lname, o.email) ELSE r : r \in st}

\* DELETE with no WHERE clause.
DELETE_all(st, o) == {}

DELETE(st, o) == {r \in st : r.id # o.id}

\* What the session holds until commit: one entry per add, delete or
\* changed object.
Pending(op, id, fname, lname, email) ==
    [op |-> op, id |-> id, fname |-> fname, lname |-> lname, email |-> email]

\* db.session.commit(): the pending changes, flushed in order.
RECURSIVE commit(_, _)
commit(st, sess) ==
    IF sess = <<>> THEN st
    ELSE LET o == Head(sess)
             st1 == CASE o.op = "add" -> INSERT(st, o)
                      [] o.op = "update" -> UPDATE(st, o)
                      [] o.op = "delete" -> DELETE(st, o)
         IN  commit(st1, Tail(sess))

\* The pending changes stay in the session.
rollback_none(sess) == sess

\* db.session.rollback(): the pending changes are dropped.
rollback(sess) == <<>>

-----------------------------------------------------------------------------
(* Requests and responses.                                                 *)

NoForm == [fname |-> <<>>, lname |-> <<>>, email |-> <<>>, csrf_token |-> FALSE]

Request(route, method, id, form, param) ==
    [route |-> route, method |-> method, id |-> id, form |-> form, param |-> param]

\* store and session are the table and the session after the request, status
\* the HTTP status, errors the form's error mapping, shown the rows handed
\* to the template, result the rows of the JSON result.
Response(st, sess, status, errors, shown, result) ==
    [store |-> st, session |-> sess, status |-> status, errors |-> errors,
     shown |-> shown, result |-> result]

\* Every route takes every method.
methods_all(route) == {"GET", "POST"}

\* The methods of each @app.route.
methods(route) ==
    CASE route = "index" -> {"GET", "POST"}
      [] route = "update" -> {"GET", "POST"}
      [] route = "delete" -> {"GET"}
      [] route = "search" -> {"GET"}

\* CSRFProtect(app): before a view runs, a request of a protected method
\* must carry a valid token.
csrf == [methods |-> {"POST", "PUT", "PATCH", "DELETE"}]

csrf_protect(req) == req.method \in csrf.methods => req.form.csrf_token

not_found_error(st, sess) == Response(st, sess, "404", {}, {}, {})

internal_error(st, sess) == Response(st, rollback(sess), "500", {}, {}, {})

\* form.validate_on_submit(): a submitting method and no field in error.
validate_on_submit(req) == req.method = "POST" /\ StudentForm(req.form) = {}

form_errors(req) == IF req.method = "POST" THEN StudentForm(req.form) ELSE {}

\* fail is the store call that raises in this request, or "none".
index(st, sess, req, fail) ==
    IF validate_on_submit(req)
    THEN LET new_student == Pending("add", 0, strip(req.form.fname),
                                    strip(req.form.lname), strip(req.form.email))
             added == Append(sess, new_student)
         IN  IF fail = "add" THEN internal_error(st, sess)
             ELSE IF fail = "commit" THEN internal_error(st, added)
             ELSE Response(commit(st, added), <<>>, "302", {}, {}, {})
    ELSE Response(st, sess, "200", form_errors(req), st, {})

update(st, sess, req, fail) ==
    IF ~found(st, req.id) THEN not_found_error(st, sess)
    ELSE IF validate_on_submit(req)
    THEN LET changed == Append(sess,
                 Pending("update", req.id, strip(req.form.fname),
                         strip(req.form.lname), strip(req.form.email)))
         IN  IF fail = "commit" THEN internal_error(st, changed)
             ELSE Response(commit(st, changed), <<>>, "302", {}, {}, {})
    ELSE Response(st, sess, "200", form_errors(req), get(st, req.id), {})

delete(st, sess, req, fail) ==
    IF ~found(st, req.id) THEN not_found_error(st, sess)
    ELSE LET deleted == Append(sess, Pending("delete", req.id, <<>>, <<>>, <<>>))
         IN  IF fail = "delete" THEN internal_error(st, sess)
             ELSE IF fail = "commit" THEN internal_error(st, deleted)
             ELSE Response(commit(st, deleted), <<>>, "302", {}, {}, {})

\* The closing of a quoted SQL string followed by a condition that is
\* always true.
Tautology == <<"'", " ", "O", "R", " ", "'", "1", "'", "=", "'", "1">>

EndsWith(s, t) ==
    Len(s) >= Len(t) /\ SubSeq(s, Len(s) - Len(t) + 1, Len(s)) = t

\* The parameter spliced into the text of the query.
select_spliced(st, email) ==
    IF EndsWith(email, Tautology) THEN st ELSE {r \in st : r.email = email}

\* SELECT * FROM student WHERE email=:email, the parameter bound.
select(st, email) == {r \in st : r.email = email}

search(st, sess, req) ==
    IF req.param # <<>>
    THEN Response(st, sess, "200", {}, {}, select(st, req.param))
    ELSE Response(st, sess, "200", {}, {}, {})

\* One request from routing to response: a method the route does not take
\* is answered 405, a protected method without a token 400.
dispatch(st, sess, req, fail) ==
    IF req.method \notin methods(req.route)
    THEN Response(st, sess, "405", {}, {}, {})
    ELSE IF ~csrf_protect(req)
    THEN Response(st, sess, "400", {}, {}, {})
    ELSE CASE req.route = "index" -> index(st, sess, req, fail)
           [] req.route = "update" -> update(st, sess, req, fail)
           [] req.route = "delete" -> delete(st, sess, req, fail)
           [] req.route = "search" -> search(st, sess, req)

-----------------------------------------------------------------------------
(* The submitted values the requests are drawn from.                       *)

Ann == <<"A", "n", "n">>
Lee == <<"L", "e", "e">>
PadA == <<" ", "A", " ">>
A1 == <<"A", "1">>
AbNl == <<"a", "b", "\n">>
Blank == <<" ", " ">>
One == <<"L">>
L50 == [i \in 1..MaxLen |-> "x"]
L51 == [i \in 1..(MaxLen + 1) |-> "x"]

E1 == <<"a", "@", "b", ".", "c", "o">>
E2 == <<"c", "@", "b", ".", "c", "o">>
E3 == <<"z", "@", "b", ".", "c", "o">>
NoAt == <<"a", "b", ".", "c", "o">>
NoDot == <<"a", "@", "b">>
PadE == <<" ">> \o E1

FnameInputs == {Ann, PadA, A1, AbNl, Blank, <<>>}
LnameInputs == {Lee, One, L50, L51}
EmailInputs == {E1, E2, NoAt, NoDot, PadE, <<>>}

Form(fname, lname, email, token) ==
    [fname |-> fname, lname |-> lname, email |-> email, csrf_token |-> token]

\* Each field varied in turn and one form with every field in error, all
\* with a valid token; a valid and an invalid form without one.
Forms ==
    {Form(f, Lee, E1, TRUE) : f \in FnameInputs}
        \cup {Form(Ann, l, E1, TRUE) : l \in LnameInputs}
        \cup {Form(Ann, Lee, e, TRUE) : e \in EmailInputs}
        \cup {Form(A1, One, NoAt, TRUE)}
        \cup {Form(Ann, Lee, E1, FALSE), Form(A1, Lee, E1, FALSE)}

\* The forms a view accepts: the requests that reach the store.
ValidForms == {form \in Forms : StudentForm(form) = {}}

\* The body of a POST that submits no field but possibly a token.
Tokens == {Form(<<>>, <<>>, <<>>, t) : t \in BOOLEAN}

Ids == 1..(MaxId + 1)

Params == {<<>>, E1, E2, E3, E1 \o Tautology}

-----------------------------------------------------------------------------
(* The state machine.                                                      *)

Init ==
    /\ store = {}
    /\ session = <<>>
    /\ last = [route |-> "none", method |-> "GET", id |-> 0, form |-> NoForm,
               param |-> <<>>, fail |-> "none", status |-> "", errors |-> {},
               shown |-> {}, result |-> {}]

\* What is kept of a request and its response.
Recorded(req, res, fail) ==
    [route |-> req.route, method |-> req.method, id |-> req.id,
     form |-> req.form, param |-> req.param,
     fail |-> IF res.status = "500" THEN fail ELSE "none",
     status |-> res.status, errors |-> res.errors,
     shown |-> res.shown, result |-> res.result]

\* The table stays within the ids of the model.
Bounded(res) == \A r \in res.store : r.id <= MaxId

GetIndex ==
    \E req \in {Request("index", "GET", 0, NoForm, <<>>)} :
    \E res \in {dispatch(store, session, req, "none")} :
        /\ Bounded(res)
        /\ store' = res.store
        /\ session' = res.session
        /\ last' = Recorded(req, res, "none")

PostIndex(form, fail) ==
    \E req \in {Request("index", "POST", 0, form, <<>>)} :
    \E res \in {dispatch(store, session, req, fail)} :
        /\ Bounded(res)
        /\ store' = res.store
        /\ session' = res.session
        /\ last' = Recorded(req, res, fail)

GetUpdate(id) ==
    \E req \in {Request("update", "GET", id, NoForm, <<>>)} :
    \E res \in {dispatch(store, session, req, "none")} :
        /\ Bounded(res)
        /\ store' = res.store
        /\ session' = res.session
        /\ last' = Recorded(req, res, "none")

PostUpdate(id, form, fail) ==
    \E req \in {Request("update", "POST", id, form, <<>>)} :
    \E res \in {dispatch(store, session, req, fail)} :
        /\ Bounded(res)
        /\ store' = res.store
        /\ session' = res.session
        /\ last' = Recorded(req, res, fail)

GetDelete(id, fail) ==
    \E req \in {Request("delete", "GET", id, NoForm, <<>>)} :
    \E res \in {dispatch(store, session, req, fail)} :
        /\ Bounded(res)
        /\ store' = res.store
        /\ session' = res.session
        /\ last' = Recorded(req, res, fail)

PostDelete(id, form) ==
    \E req \in {Request("delete", "POST", id, form, <<>>)} :
    \E res \in {dispatch(store, session, req, "none")} :
        /\ Bounded(res)
        /\ store' = res.store
        /\ session' = res.session
        /\ last' = Recorded(req, res, "none")

GetSearch(param) ==
    \E req \in {Request("search", "GET", 0, NoForm, param)} :
    \E res \in {dispatch(store, session, req, "none")} :
        /\ Bounded(res)
        /\ store' = res.store
        /\ session' = res.session
        /\ last' = Recorded(req, res, "none")

PostSearch(form) ==
    \E req \in {Request("search", "POST", 0, form, <<>>)} :
    \E res \in {dispatch(store, session, req, "none")} :
        /\ Bounded(res)
        /\ store' = res.store
        /\ session' = res.session
        /\ last' = Recorded(req, res, "none")

Next ==
    \/ GetIndex
    \/ \E form \in Forms : PostIndex(form, "none")
    \/ \E id \in Ids : GetUpdate(id)
    \/ \E id \in Ids, form \in Forms : PostUpdate(id, form, "none")
    \/ \E id \in Ids : GetDelete(id, "none")
    \/ \E id \in Ids, form \in Tokens : PostDelete(id, form)
    \/ \E param \in Params : GetSearch(param)
    \/ \E form \in Tokens : PostSearch(form)

Spec == Init /\ [][Next]_vars

\* The requests of Next, and the requests in which a store call raises.
NextFault ==
    \/ Next
    \/ \E form \in ValidForms, fail \in {"add", "commit"} : PostIndex(form, fail)
    \/ \E id \in Ids, form \in ValidForms : PostUpdate(id, form, "commit")
    \/ \E id \in Ids, fail \in {"delete", "commit"} : GetDelete(id, fail)

SpecFault == Init /\ [][NextFault]_vars

-----------------------------------------------------------------------------
(* The vocabulary of the properties, stated apart from the validators.     *)

Ids_of(st) == {r.id : r \in st}

\* s without its leading and trailing whitespace: what lies between the
\* first and the last character that is not whitespace.
Trimmed(s) ==
    LET solid == {i \in 1..Len(s) : s[i] \notin Whitespace}
    IN  IF solid = {} THEN <<>>
        ELSE SubSeq(s, CHOOSE i \in solid : \A j \in solid : i <= j,
                       CHOOSE i \in solid : \A j \in solid : j <= i)

\* The constraint on a stored name: 2 to 50 characters, letters and spaces.
NameOK(s) == Len(s) >= MinLen /\ Len(s) <= MaxLen /\ AllIn(s, NameChars)

\* The fields of a submitted form that break a rule: a name that is empty,
\* shorter than 2 or longer than 50, or holds a character that is neither a
\* letter nor a space; an email that is empty or malformed.
Offending(form) ==
    {f \in {"fname"} : Trimmed(form.fname) = <<>> \/ ~NameOK(form.fname)}
        \cup {f \in {"lname"} : Trimmed(form.lname) = <<>> \/ ~NameOK(form.lname)}
        \cup {f \in {"email"} : ~Email(form.email)}

\* The row a form stands for, under the id given.
RowOf(id, form) ==
    Student(id, Trimmed(form.fname), Trimmed(form.lname), Trimmed(form.email))

Submit(route) == last'.route = route /\ last'.method = "POST"

View(route) == last'.route = route /\ last'.method = "GET"

-----------------------------------------------------------------------------
(* C1 *)

\* C1: every record in the store has a first name and a last name of 2 to
\* 50 letters and spaces and an email of valid shape, as stored (after
\* trimming).
C1_StoredRecordsValid ==
    \A r \in store : NameOK(r.fname) /\ NameOK(r.lname) /\ Email(r.email)

-----------------------------------------------------------------------------
(* C2 *)

\* The create this transition is: one row added under an id the table did
\* not hold, with the trimmed submitted values, the other rows as they were.
Created ==
    /\ last'.status = "302"
    /\ \E id \in Ids_of(store') \ Ids_of(store) :
           store' = store \cup {RowOf(id, last'.form)}

\* A page shows what the table holds: the listing every row, the update
\* form the row looked up.
ShowsStore ==
    /\ (last'.route = "index" /\ last'.status = "200") => last'.shown = store'
    /\ (last'.route = "update" /\ last'.status = "200")
           => last'.shown = {r \in store' : r.id = last'.id}

-----------------------------------------------------------------------------
(* C3 *)

\* C3: a submission to POST / or POST /update/{id} with a field that breaks
\* a rule is not applied: the records are as before, there is no redirect
\* and every offending field has an entry in the error mapping.  Stated for
\* the submissions that reach validation: a valid token and, for an update,
\* an id in the store.
C3_InvalidNotApplied ==
    [][(/\ Submit("index") \/ (Submit("update") /\ last'.id \in Ids_of(store))
        /\ last'.form.csrf_token
        /\ Offending(last'.form) # {})
       => (/\ store' = store
           /\ last'.status # "302"
           /\ Offending(last'.form) \subseteq last'.errors)]_vars

-----------------------------------------------------------------------------
(* C4 *)

\* C4 as stated: a GET or POST to /update/{id} for an id not in the store
\* is answered 404 whatever the form holds, and the store is unchanged.
C4_UpdateMissingIs404 ==
    [][(last'.route = "update" /\ last'.id \notin Ids_of(store))
       => (last'.status = "404" /\ store' = store)]_vars

\* C4 amended: a GET, or a POST that carries a valid CSRF token, to
\* /update/{id} for an id not in the store is answered 404 whatever the
\* other fields hold; a POST without a valid token is answered 400 before
\* the lookup; either way the store is unchanged.
C4_UpdateMissingIs404WithToken ==
    [][(last'.route = "update" /\ last'.id \notin Ids_of(store))
       => (/\ store' = store
           /\ last'.status =
                  IF last'.method = "POST" /\ ~last'.form.csrf_token
                  THEN "400" ELSE "404")]_vars

\* A form that would pass validation was posted to an id that is not in the
\* store, beside another record, and was answered 404.
C4_Witness ==
    /\ last.route = "update"
    /\ last.method = "POST"
    /\ Offending(last.form) = {}
    /\ last.form.csrf_token
    /\ last.id \notin Ids_of(store)
    /\ store # {}
    /\ last.status = "404"

-----------------------------------------------------------------------------
(* C5 *)

\* The delete of a record in the store removes that record and no other.
DeleteRemovesOne ==
    (View("delete") /\ last'.id \in Ids_of(store))
        => store' = {r \in store : r.id # last'.id}

\* A deleted id comes back only by a create; nothing else adds an id.
OnlyCreateAddsIds ==
    (Ids_of(store') \ Ids_of(store) # {})
        => (Submit("index") /\ last'.status = "302")

\* C5 as stated: deleting a record in the store removes exactly that record;
\* while the id is not in the store, GET /update/X, POST /update/X and
\* delete of X are answered 404 and change nothing; the id comes back only
\* by a create.
C5_DeleteThenNotFound ==
    [][/\ DeleteRemovesOne
       /\ OnlyCreateAddsIds
       /\ ((last'.route = "update" \/ View("delete")) /\ last'.id \notin Ids_of(store))
              => (last'.status = "404" /\ store' = store)]_vars

\* C5 amended: the same, the POST /update/X being one that carries a valid
\* CSRF token (one without is answered 400 and changes nothing).
C5_DeleteThenNotFoundWithToken ==
    [][/\ DeleteRemovesOne
       /\ OnlyCreateAddsIds
       /\ ((last'.route = "update" \/ View("delete")) /\ last'.id \notin Ids_of(store))
              => (/\ store' = store
                  /\ (last'.method = "GET" \/ last'.form.csrf_token)
                         => last'.status = "404")]_vars

\* A record was deleted and another record is still in the store.
C5_Witness ==
    /\ last.route = "delete"
    /\ last.method = "GET"
    /\ last.status = "302"
    /\ last.id \notin Ids_of(store)
    /\ store # {}

-----------------------------------------------------------------------------
(* C6 *)

\* What a served delete does: a record in the store is removed and the
\* response is a redirect; an id not in the store is answered 404.
DeleteServed ==
    IF last'.id \in Ids_of(store)
    THEN last'.status = "302" /\ store' = {r \in store : r.id # last'.id}
    ELSE last'.status = "404" /\ store' = store

-----------------------------------------------------------------------------
(* C7 *)

\* C7: a successful POST /update/{id} replaces the three fields of that
\* record with the trimmed submitted values, keeps its id, leaves every
\* other record and the number of records as they were; ids are unique, and
\* the set of ids changes only by a create or a delete.
C7_UpdateReplacesFields ==
    [][/\ (Submit("update") /\ last'.status = "302")
           => (/\ \E old \in store :
                     /\ old.id = last'.id
                     /\ store' = (store \ {old}) \cup {RowOf(old.id, last'.form)}
               /\ Cardinality(store') = Cardinality(store)
               /\ Ids_of(store') = Ids_of(store))
       /\ Cardinality(Ids_of(store')) = Cardinality(store')
       /\ (Ids_of(store') # Ids_of(store))
              => (last'.status = "302" /\ (Submit("index") \/ View("delete")))]_vars

\* The second of two records was updated from a padded first name and
\* another email.
C7_Witness ==
    /\ last.route = "update"
    /\ last.status = "302"
    /\ last.id = 2
    /\ Cardinality(store) = 2
    /\ last.form.email = E2
    /\ \E r \in store : r.id = 2 /\ r.email = E2

-----------------------------------------------------------------------------
(* C8 *)

\* Equal character for character.
SameString(a, b) == Len(a) = Len(b) /\ \A i \in 1..Len(a) : a[i] = b[i]

-----------------------------------------------------------------------------
(* C9 *)

\* C9: a create, update or delete in which a store call raises ends with
\* status 500, the store as before the request and nothing pending in the
\* session; the store changes only in a request that ends in a redirect.
C9_FailureRollsBack ==
    [][/\ last'.fail # "none"
           => (last'.status = "500" /\ store' = store /\ session' = <<>>)
       /\ store' # store => (last'.status = "302" /\ last'.fail = "none")
       /\ session' = <<>>]_vars

\* The commit of an update raised and the record is as it was.
C9_Witness ==
    /\ last.route = "update"
    /\ last.fail = "commit"
    /\ last.status = "500"
    /\ \E r \in store : r.id = last.id /\ r # RowOf(r.id, last.form)
    /\ session = <<>>

-----------------------------------------------------------------------------
(* C10 *)

\* C10: a request that presents no valid CSRF token, whatever its route and
\* method, leaves the records as they were.
C10_NoTokenNoChange ==
    [][~last'.form.csrf_token => store' = store]_vars

====
